---- MODULE Spec2Model ----
(***************************************************************************)
(* State-machine model of src/server.js: the Spotify OAuth credential      *)
(* cache, the /login and /callback handlers, and the five playback         *)
(* handlers (/now-playing, /play, /pause, /next, /previous).               *)
(*                                                                         *)
(* src/server.js holds two copies of the server: lines 1-240 (copy 1) and  *)
(* lines 242-467 (copy 2).  The variable `variant` says which copy runs.   *)
(*                                                                         *)
(* Node runs one handler segment at a time: a handler runs from a network  *)
(* event to its next await on the provider without interleaving, so every  *)
(* action below is one such segment.                                       *)
(*                                                                         *)
(* Spec:     the playback handlers on one connection, with /callback       *)
(*           running beside them and the clock advancing.                  *)
(* SpecAuth: /login and /callback over every `state` value of up to        *)
(*           MaxStateLen characters.                                       *)
(* SpecNowPlaying: /now-playing over every provider answer and every file  *)
(*           system.                                                       *)
(* SpecConc: two overlapping requests, with /callback beside them.         *)
(* SpecHang: two overlapping requests on a signed-in server, where a       *)
(*           provider call may never return; fair to the calls that do.    *)
(* SpecLive: Spec, fair to every provider call.                            *)
(***************************************************************************)
EXTENDS Integers, Sequences, FiniteSets, TLC

\* ------------------------------------------------------------------ bounds

\* Ticks of the clock (Date.now()) the model lets pass.
MaxTicks == 3
\* Successful code exchanges (each issues a fresh refresh token).
MaxExchanges == 2
\* Longest raw `state` query value enumerated by SpecAuth.
MaxStateLen == 3

\* --------------------------------------------------------------- constants

\* src/server.js:158  the 30 s safety buffer, in ms
BufferMs == 30000

\* JavaScript null / undefined where a string is expected.
Null == "null"
\* No token (null / undefined where a token is expected).
NoToken == [none |-> TRUE]
\* No object: an absent response body, payload body or track item.
Nothing == << >>

\* ms that pass per clock tick
TickMs == {15000}
\* expires_in (seconds) values the provider answers with
ExpiresInChoices == {30, 45}

Variants == {1, 2}
\* The connections playback requests arrive on.
Requests == {1}
Ops == {"now-playing", "play", "pause", "next", "previous"}

\* The provider-client method each handler calls (src/server.js:106,120,133,146,175).
ProviderMethod(op) ==
  CASE op = "play" -> "play"
    [] op = "pause" -> "pause"
    [] op = "next" -> "skipToNext"
    [] op = "previous" -> "skipToPrevious"
    [] op = "now-playing" -> "getMyCurrentPlaybackState"

\* Errors a provider call rejects with: body, message and String(err).
ProviderErrors ==
  { [body |-> "upstream-body", message |-> "upstream-msg", str |-> "WebapiError: upstream-msg"],
    [body |-> Null, message |-> "timeout-msg", str |-> "Error: timeout-msg"],
    [body |-> Null, message |-> "", str |-> "Error"] }

\* JavaScript truthiness of a string-or-null value.
Truthy(v) == v # Null /\ v # ""

\* a || b
OrElse(a, b) == IF Truthy(a) THEN a ELSE b

\* ------------------------------------------------------------------- state

VARIABLES
  variant,          \* which copy of the server runs
  CLIENT_ID,        \* Null or "set"
  CLIENT_SECRET,    \* Null or "set"
  now,              \* Date.now(), ms
  apiAccessToken,   \* spotifyApi's access token
  apiRefreshToken,  \* spotifyApi's refresh token
  REFRESH_TOKEN,
  ACCESS_TOKEN_EXPIRES_AT,
  exchanges,        \* successful code exchanges so far
  req,              \* the open playback requests
  cb,               \* the /callback request
  login             \* the last /login response

vars == << variant, CLIENT_ID, CLIENT_SECRET, now, apiAccessToken, apiRefreshToken,
           REFRESH_TOKEN, ACCESS_TOKEN_EXPIRES_AT, exchanges, req, cb, login >>

config == << variant, CLIENT_ID, CLIENT_SECRET >>
cred == << apiAccessToken, apiRefreshToken, REFRESH_TOKEN, ACCESS_TOKEN_EXPIRES_AT >>

\* A refresh token of the k-th successful code exchange, and an access token
\* issued for refresh token rt by the callback (by = 0) or by request `by`.
RefreshTok(k) == [rt |-> k]
AccessTok(rt, by) == [rt |-> rt, by |-> by]

\* ------------------------------------------------------------ playback data

Track == [ id |-> "t1", name |-> "Song",
           artists |-> << [name |-> "A1"], [name |-> "A2"] >>,
           album |-> [ name |-> "Album",
                       images |-> << [url |-> "img", height |-> 64, width |-> 64] >> ],
           duration_ms |-> 1000,
           external_urls |-> [spotify |-> "https://open.spotify.com/track/t1"] ]

\* Answers of getMyCurrentPlaybackState: a status and a body (Nothing if absent);
\* progress_ms / is_playing may be missing from the body.
PlaybackPayloads ==
  { [status |-> 204, body |-> Nothing],
    [status |-> 200, body |-> Nothing],
    [status |-> 200, body |-> [item |-> Nothing]],
    [status |-> 204, body |-> [item |-> Nothing]],
    [status |-> 200, body |-> [item |-> Track, progress_ms |-> 500, is_playing |-> TRUE]] }

\* The file system at request time: public/canvas/<id>.mp4, <id>.webm, and
\* canvas.json (missing, not parseable, or a trackId -> url mapping).
FileSystems ==
  [ mp4 : BOOLEAN, webm : BOOLEAN,
    mapFile : { [kind |-> "missing"], [kind |-> "invalid"],
                [kind |-> "json", mapping |-> [t \in {"t1"} |-> "https://cdn/t1.mp4"]],
                [kind |-> "json", mapping |-> [t \in {"t2"} |-> "https://cdn/t2.mp4"]] } ]

\* Mutant of CanvasUrl: the canvas.json mapping is looked up first.
CanvasUrl_MappingFirst(id, fs) ==
  IF /\ fs.mapFile.kind = "json"
     /\ id \in DOMAIN fs.mapFile.mapping /\ Truthy(fs.mapFile.mapping[id])
  THEN fs.mapFile.mapping[id]
  ELSE IF fs.mp4 THEN "/canvas/" \o id \o ".mp4"
  ELSE IF fs.webm THEN "/canvas/" \o id \o ".webm"
  ELSE Null

\* src/server.js:199-224  the canvas_url attached to a track id, Null if none
CanvasUrl(id, fs) ==
  IF fs.mp4 THEN "/canvas/" \o id \o ".mp4"
  ELSE IF fs.webm THEN "/canvas/" \o id \o ".webm"
  ELSE IF fs.mapFile.kind # "json" THEN Null
  ELSE IF id \in DOMAIN fs.mapFile.mapping /\ Truthy(fs.mapFile.mapping[id])
       THEN fs.mapFile.mapping[id]
  ELSE Null

\* src/server.js:187-196  the projected item
ProjectItem(item) ==
  [ id |-> item.id, name |-> item.name,
    artists |-> [i \in DOMAIN item.artists |-> item.artists[i].name],
    album |-> item.album.name, album_images |-> item.album.images,
    duration_ms |-> item.duration_ms, external_urls |-> item.external_urls ]

WithCanvas(item, fs) ==
  IF CanvasUrl(item.id, fs) = Null THEN item
  ELSE [f \in DOMAIN item \cup {"canvas_url"} |->
          IF f = "canvas_url" THEN CanvasUrl(item.id, fs) ELSE item[f]]

\* src/server.js:176, 200  the handler gets as far as the canvas lookup
LooksForCanvas(data) ==
  /\ ~(data.body = Nothing \/ data.status = 204)
  /\ data.body.item # Nothing
  /\ Truthy(data.body.item.id)

\* Mutant of Snapshot: only an absent body counts as no session.
Snapshot_NoStatusCheck(data, fs, t) ==
  IF data.body = Nothing
  THEN [is_playing |-> FALSE, item |-> Nothing]
  ELSE [ is_playing |-> IF "is_playing" \in DOMAIN data.body THEN data.body.is_playing ELSE FALSE,
         progress_ms |-> IF "progress_ms" \in DOMAIN data.body THEN data.body.progress_ms ELSE 0,
         timestamp |-> t,
         item |-> IF data.body.item = Nothing THEN Nothing
                  ELSE WithCanvas(ProjectItem(data.body.item), fs) ]

\* src/server.js:176-225  the 200 body of /now-playing
Snapshot(data, fs, t) ==
  IF data.body = Nothing \/ data.status = 204
  THEN [is_playing |-> FALSE, item |-> Nothing]
  ELSE [ is_playing |-> IF "is_playing" \in DOMAIN data.body THEN data.body.is_playing ELSE FALSE,
         progress_ms |-> IF "progress_ms" \in DOMAIN data.body THEN data.body.progress_ms ELSE 0,
         timestamp |-> t,
         item |-> IF data.body.item = Nothing THEN Nothing
                  ELSE WithCanvas(ProjectItem(data.body.item), fs) ]

\* ------------------------------------------------------------------ strings
\* A string handled character by character is a sequence of one-character
\* strings: "/h" is << "/", "h" >>.

\* The printable ASCII characters, code 32 first; the double quote, the
\* backslash and the grave accent are written QUOT, BSOL and GRAVE.
Ascii ==
  << " ", "!", "QUOT", "#", "$", "%", "&", "'", "(", ")", "*", "+",
     ",", "-", ".", "/", "0", "1", "2", "3", "4", "5", "6", "7",
     "8", "9", ":", ";", "<", "=", ">", "?", "@", "A", "B", "C",
     "D", "E", "F", "G", "H", "I", "J", "K", "L", "M", "N", "O",
     "P", "Q", "R", "S", "T", "U", "V", "W", "X", "Y", "Z", "[",
     "BSOL", "]", "^", "_", "GRAVE", "a", "b", "c", "d", "e", "f", "g",
     "h", "i", "j", "k", "l", "m", "n", "o", "p", "q", "r", "s",
     "t", "u", "v", "w", "x", "y", "z", "{", "|", "}", "~" >>

\* The character with code b < 128 (control characters are told apart by code).
AsciiChar(b) == IF b >= 32 /\ b <= 126 THEN Ascii[b - 31] ELSE "ctl" \o ToString(b)

IsHex(c) == c \in { "0", "1", "2", "3", "4", "5", "6", "7", "8", "9",
                    "A", "B", "C", "D", "E", "F", "a", "b", "c", "d", "e", "f" }

HexVal(c) ==
  CASE c = "0" -> 0 [] c = "1" -> 1 [] c = "2" -> 2 [] c = "3" -> 3 [] c = "4" -> 4 [] c = "5" -> 5 [] c = "6" -> 6 [] c = "7" -> 7 [] c = "8" -> 8 [] c = "9" -> 9
    [] c \in {"A", "a"} -> 10 [] c \in {"B", "b"} -> 11 [] c \in {"C", "c"} -> 12 [] c \in {"D", "d"} -> 13 [] c \in {"E", "e"} -> 14 [] c \in {"F", "f"} -> 15

HexDigit(n) == Ascii[IF n < 10 THEN 17 + n ELSE 24 + n]

\* The characters encodeURIComponent leaves as they are.
Unreserved ==
  { Ascii[i] : i \in (17..26) \cup (34..59) \cup (66..91) }
    \cup { "-", "_", ".", "!", "~", "*", "'", "(", ")" }

CharCode(c) == CHOOSE b \in 32..126 : Ascii[b - 31] = c

\* encodeURIComponent, on printable ASCII
RECURSIVE encodeURIComponent(_)
encodeURIComponent(s) ==
  IF s = << >> THEN << >>
  ELSE (IF Head(s) \in Unreserved THEN << Head(s) >>
        ELSE << "%", HexDigit(CharCode(Head(s)) \div 16), HexDigit(CharCode(Head(s)) % 16) >>)
       \o encodeURIComponent(Tail(s))

\* A %XX escape starts at s[k].
EscapeAt(s, k) == k + 2 <= Len(s) /\ s[k] = "%" /\ IsHex(s[k + 1]) /\ IsHex(s[k + 2])
ByteAt(s, k) == 16 * HexVal(s[k + 1]) + HexVal(s[k + 2])

\* Bytes of a UTF-8 sequence whose first byte is b (0: b cannot start one).
Utf8Len(b) ==
  IF b >= 194 /\ b <= 223 THEN 2
  ELSE IF b >= 224 /\ b <= 239 THEN 3
  ELSE IF b >= 240 /\ b <= 244 THEN 4
  ELSE 0

\* The n - 1 escapes after s[k..k+2] are continuation bytes (10xxxxxx).
Continues(s, k, n) ==
  \A j \in 1..(n - 1) :
    /\ EscapeAt(s, k + 3 * j)
    /\ ByteAt(s, k + 3 * j) >= 128
    /\ ByteAt(s, k + 3 * j) <= 191

URIError == [ok |-> FALSE, str |-> << >>]
Prepend(c, d) == IF d.ok THEN [ok |-> TRUE, str |-> << c >> \o d.str] ELSE d

\* decodeURIComponent from s[k] on: [ok, str], ok = FALSE when it throws
\* URIError.  A decoded non-ASCII character is written utf8<first byte>.
RECURSIVE DecodeFrom(_, _)
DecodeFrom(s, k) ==
  IF k > Len(s) THEN [ok |-> TRUE, str |-> << >>]
  ELSE IF s[k] # "%" THEN Prepend(s[k], DecodeFrom(s, k + 1))
  ELSE IF ~EscapeAt(s, k) THEN URIError
  ELSE IF ByteAt(s, k) < 128 THEN Prepend(AsciiChar(ByteAt(s, k)), DecodeFrom(s, k + 3))
  ELSE IF Utf8Len(ByteAt(s, k)) = 0 THEN URIError
  ELSE IF ~Continues(s, k, Utf8Len(ByteAt(s, k))) THEN URIError
  ELSE Prepend("utf8" \o ToString(ByteAt(s, k)), DecodeFrom(s, k + 3 * Utf8Len(ByteAt(s, k))))

decodeURIComponent(s) == DecodeFrom(s, 1)

\* s.startsWith('/')
StartsWithSlash(s) == Len(s) >= 1 /\ s[1] = "/"

\* Mutant of RedirectTarget: the raw state is used without decoding it.
RedirectTarget_NoDecode(query) ==
  LET rawState == IF "state" \in DOMAIN query /\ query.state # << >>
                  THEN query.state ELSE << >>
  IN IF rawState # << >> /\ StartsWithSlash(rawState) THEN rawState ELSE << "/" >>

\* src/server.js:86-94  the redirect target for a request query
RedirectTarget(query) ==
  LET rawState == IF "state" \in DOMAIN query /\ query.state # << >>
                  THEN query.state ELSE << >>
      decoded == decodeURIComponent(rawState)
  IN IF decoded.ok /\ decoded.str # << >> /\ StartsWithSlash(decoded.str)
     THEN decoded.str
     ELSE << "/" >>

\* ---------------------------------------------------------------- requests

IdleReq ==
  [ pc |-> "idle", op |-> "none",
    refresh |-> "none",       \* the refresh step: none, skipped, inflight, ok, failed
    usedRt |-> NoToken,       \* the refresh token the in-flight refresh call carries
    checked |-> "none",       \* the access-token check: none, held, absent
    called |-> "none",        \* the provider playback method called
    refreshCalls |-> 0, playbackCalls |-> 0,
    logged |-> << >>,         \* the console lines the handler wrote (their labels)
    responses |-> 0,          \* responses sent
    status |-> 0, body |-> Nothing,
    during |-> {},            \* the requests whose refresh call resolved while
                              \* this request's own refresh call was in flight
    data |-> Nothing,         \* /now-playing: the provider's answer (`data`)
    files |-> Nothing ]       \* /now-playing: what the handler found on disk

IdleCb ==
  [ pc |-> "idle", query |-> Nothing, grantCalls |-> 0, logged |-> << >>,
    responses |-> 0, status |-> 0, body |-> Null, location |-> << >> ]

NoLogin == [status |-> 0]

\* src/server.js:20-21 (copy 1: `|| null`), 261-262 (copy 2: `|| "<built-in>"`):
\* copy 2 always has both, copy 1 has each only if the environment sets it.
Init ==
  /\ variant \in Variants
  /\ CLIENT_ID \in IF variant = 1 THEN {Null, "set"} ELSE {"set"}
  /\ CLIENT_SECRET \in IF variant = 1 THEN {Null, "set"} ELSE {"set"}
  /\ now = 0
  /\ apiAccessToken = NoToken
  /\ apiRefreshToken = NoToken
  /\ REFRESH_TOKEN = NoToken              \* src/server.js:40
  /\ ACCESS_TOKEN_EXPIRES_AT = 0          \* src/server.js:41
  /\ exchanges = 0
  /\ req = [r \in Requests |-> IdleReq]
  /\ cb = IdleCb
  /\ login = NoLogin

\* !!(CLIENT_ID && CLIENT_SECRET)
AuthPossible == Truthy(CLIENT_ID) /\ Truthy(CLIENT_SECRET)

\* Mutant of NeedsRefresh: the 30 s buffer is left out.
NeedsRefresh_NoBuffer ==
  /\ REFRESH_TOKEN # NoToken
  /\ ~(now < ACCESS_TOKEN_EXPIRES_AT)

\* src/server.js:157-158  refreshAccessTokenIfNeeded goes on to the refresh call
NeedsRefresh ==
  /\ REFRESH_TOKEN # NoToken
  /\ ~(now < ACCESS_TOKEN_EXPIRES_AT - BufferMs)

\* The 401 body: copy 1 (lines 105,119,132,145,173) carries auth_possible,
\* copy 2 (lines 332,346,359,372,400) does not.
Body401 ==
  IF variant = 1
  THEN [error |-> "Not authenticated. Visit /login", auth_possible |-> AuthPossible]
  ELSE [error |-> "Not authenticated. Visit /login"]

\* The 500 body: src/server.js:111-112 (and 124,137,150) for the controls,
\* 228 for /now-playing.
Body500(op, err) ==
  IF op = "now-playing"
  THEN [error |-> "failed", details |-> err.str]
  ELSE [error |-> op \o " failed",
        details |-> OrElse(err.body, OrElse(err.message, err.str))]

\* The name console.error is given in the handler's catch.
ErrorLabel(op) == op \o " error"

\* Mutant of CheckAndCall: the 401 is sent without `return`, so the handler
\* goes on to the provider call.
CheckAndCall_NoReturn(q, token) ==
  IF token = NoToken
  THEN [q EXCEPT !.pc = "awaitPlayback", !.checked = "absent", !.responses = @ + 1,
                 !.status = 401, !.body = Body401,
                 !.called = ProviderMethod(q.op), !.playbackCalls = @ + 1]
  ELSE [q EXCEPT !.pc = "awaitPlayback", !.checked = "held",
                 !.called = ProviderMethod(q.op), !.playbackCalls = @ + 1]

\* Mutant of CheckAndCall: the access-token check is left out.
CheckAndCall_NoCheck(q, token) ==
  [q EXCEPT !.pc = "awaitPlayback", !.checked = "held",
            !.called = ProviderMethod(q.op), !.playbackCalls = @ + 1]

\* The handler after `await refreshAccessTokenIfNeeded()`: the access-token
\* check, then either the 401 or the provider playback call.  `q` is the
\* request as the refresh step left it, `token` the access token then held.
CheckAndCall(q, token) ==
  IF token = NoToken
  THEN [q EXCEPT !.pc = "done", !.checked = "absent", !.responses = @ + 1,
                 !.status = 401, !.body = Body401]
  ELSE [q EXCEPT !.pc = "awaitPlayback", !.checked = "held",
                 !.called = ProviderMethod(q.op), !.playbackCalls = @ + 1]

\* A request arrives: the handler runs up to its first await on the provider.
RequestStart(r, op) ==
  /\ req[r].pc = "idle"
  /\ IF NeedsRefresh
     THEN /\ apiRefreshToken' = REFRESH_TOKEN                 \* line 159
          /\ req' = [req EXCEPT ![r] =
                 [IdleReq EXCEPT !.pc = "awaitRefresh", !.op = op, !.refresh = "inflight",
                                 !.usedRt = REFRESH_TOKEN, !.refreshCalls = 1]]
     ELSE /\ req' = [req EXCEPT ![r] =
                 CheckAndCall([IdleReq EXCEPT !.op = op, !.refresh = "skipped"],
                              apiAccessToken)]
          /\ UNCHANGED apiRefreshToken
  /\ UNCHANGED << config, now, apiAccessToken, REFRESH_TOKEN, ACCESS_TOKEN_EXPIRES_AT,
                  exchanges, cb, login >>

\* The requests after r's refresh call resolved: r goes on with the token now
\* held, the requests still waiting for their own refresh call note that r's
\* resolved meanwhile.
AfterRefresh(r, token) ==
  [q \in DOMAIN req |->
     IF q = r
     THEN CheckAndCall([req[r] EXCEPT !.refresh = "ok", !.usedRt = NoToken,
                           !.logged = Append(@, "Refreshed access token")],
                       token)
     ELSE IF req[q].refresh = "inflight"
          THEN [req[q] EXCEPT !.during = @ \cup {r}]
          ELSE req[q]]

\* Mutant of RefreshSucceeds: the result is dropped when the token held is
\* still fresh, as it is when another refresh has just been stored.
RefreshSucceeds_KeepsFresh(r, expiresIn) ==
  /\ req[r].pc = "awaitRefresh"
  /\ IF now < ACCESS_TOKEN_EXPIRES_AT - BufferMs
     THEN UNCHANGED << apiAccessToken, ACCESS_TOKEN_EXPIRES_AT >>
     ELSE /\ apiAccessToken' = AccessTok(req[r].usedRt.rt, r)
          /\ ACCESS_TOKEN_EXPIRES_AT' = now + expiresIn * 1000
  /\ req' = AfterRefresh(r, apiAccessToken')
  /\ UNCHANGED << config, now, apiRefreshToken, REFRESH_TOKEN, exchanges, cb, login >>

\* Mutant of RefreshSucceeds: the access token is stored, the expiry is not.
RefreshSucceeds_TokenOnly(r, expiresIn) ==
  /\ req[r].pc = "awaitRefresh"
  /\ apiAccessToken' = AccessTok(req[r].usedRt.rt, r)
  /\ req' = AfterRefresh(r, apiAccessToken')
  /\ UNCHANGED << config, now, apiRefreshToken, REFRESH_TOKEN, ACCESS_TOKEN_EXPIRES_AT,
                  exchanges, cb, login >>

\* The refresh call resolves (lines 161-164), then the handler goes on.
RefreshSucceeds(r, expiresIn) ==
  /\ req[r].pc = "awaitRefresh"
  /\ apiAccessToken' = AccessTok(req[r].usedRt.rt, r)
  /\ ACCESS_TOKEN_EXPIRES_AT' = now + expiresIn * 1000
  /\ req' = AfterRefresh(r, apiAccessToken')
  /\ UNCHANGED << config, now, apiRefreshToken, REFRESH_TOKEN, exchanges, cb, login >>

\* Mutant of RefreshFails: the catch drops the access token.
RefreshFails_ClearsToken(r, err) ==
  /\ req[r].pc = "awaitRefresh"
  /\ apiAccessToken' = NoToken
  /\ req' = [req EXCEPT ![r] =
         CheckAndCall([req[r] EXCEPT !.refresh = "failed", !.usedRt = NoToken,
                          !.logged = Append(@, "Failed to refresh token:")],
                      apiAccessToken')]
  /\ UNCHANGED << config, now, apiRefreshToken, REFRESH_TOKEN, ACCESS_TOKEN_EXPIRES_AT,
                  exchanges, cb, login >>

\* Mutant of RefreshFails: the catch forces the next request to refresh.
RefreshFails_ResetsExpiry(r, err) ==
  /\ req[r].pc = "awaitRefresh"
  /\ ACCESS_TOKEN_EXPIRES_AT' = 0
  /\ req' = [req EXCEPT ![r] =
         CheckAndCall([req[r] EXCEPT !.refresh = "failed", !.usedRt = NoToken,
                          !.logged = Append(@, "Failed to refresh token:")],
                      apiAccessToken)]
  /\ UNCHANGED << config, now, apiAccessToken, apiRefreshToken, REFRESH_TOKEN,
                  exchanges, cb, login >>

\* Mutant of RefreshFails: a failed refresh answers the request as unauthenticated.
RefreshFails_Answers401(r, err) ==
  /\ req[r].pc = "awaitRefresh"
  /\ req' = [req EXCEPT ![r] =
         [@ EXCEPT !.pc = "done", !.refresh = "failed", !.usedRt = NoToken,
                   !.logged = Append(@, "Failed to refresh token:"),
                   !.checked = "absent", !.responses = @ + 1,
                   !.status = 401, !.body = Body401]]
  /\ UNCHANGED << config, now, cred, exchanges, cb, login >>

\* The refresh call rejects (lines 165-167), then the handler goes on.
RefreshFails(r, err) ==
  /\ req[r].pc = "awaitRefresh"
  /\ req' = [req EXCEPT ![r] =
         CheckAndCall([req[r] EXCEPT !.refresh = "failed", !.usedRt = NoToken,
                          !.logged = Append(@, "Failed to refresh token:")],
                      apiAccessToken)]
  /\ UNCHANGED << config, now, cred, exchanges, cb, login >>

\* The provider playback call resolves: the success response.
PlaybackSucceeds(r, data, fs) ==
  /\ req[r].pc = "awaitPlayback"
  /\ req' = [req EXCEPT ![r] =
         [@ EXCEPT !.pc = "done", !.responses = @ + 1, !.status = 200,
                   !.body = IF req[r].op = "now-playing" THEN Snapshot(data, fs, now)
                            ELSE [success |-> TRUE],
                   !.data = IF req[r].op = "now-playing" THEN data ELSE @,
                   !.files = IF req[r].op = "now-playing" /\ LooksForCanvas(data)
                             THEN fs ELSE @]]
  /\ UNCHANGED << config, now, cred, exchanges, cb, login >>

\* Mutant of PlaybackFails: the first failure of the provider call is retried.
PlaybackFails_RetriesOnce(r, err) ==
  /\ req[r].pc = "awaitPlayback"
  /\ req' = [req EXCEPT ![r] =
         IF req[r].playbackCalls < 2
         THEN [@ EXCEPT !.playbackCalls = @ + 1,
                        !.logged = Append(@, ErrorLabel(req[r].op))]
         ELSE [@ EXCEPT !.pc = "done", !.responses = @ + 1, !.status = 500,
                        !.body = Body500(req[r].op, err),
                        !.logged = Append(@, ErrorLabel(req[r].op))]]
  /\ UNCHANGED << config, now, cred, exchanges, cb, login >>

\* Mutant of PlaybackFails: the catch logs the error and answers success.
PlaybackFails_AnswersSuccess(r, err) ==
  /\ req[r].pc = "awaitPlayback"
  /\ req' = [req EXCEPT ![r] =
         [@ EXCEPT !.pc = "done", !.responses = @ + 1, !.status = 200,
                   !.body = [success |-> TRUE],
                   !.logged = Append(@, ErrorLabel(req[r].op))]]
  /\ UNCHANGED << config, now, cred, exchanges, cb, login >>

\* The provider playback call rejects: the handler's catch.
PlaybackFails(r, err) ==
  /\ req[r].pc = "awaitPlayback"
  /\ req' = [req EXCEPT ![r] =
         [@ EXCEPT !.pc = "done", !.responses = @ + 1, !.status = 500,
                   !.body = Body500(req[r].op, err),
                   !.logged = Append(@, ErrorLabel(req[r].op))]]
  /\ UNCHANGED << config, now, cred, exchanges, cb, login >>

\* The provider call request r awaits is one that never returns: the handler
\* stays suspended at its await for good.
Hang(r) ==
  /\ req[r].pc \in {"awaitRefresh", "awaitPlayback"}
  /\ req' = [req EXCEPT ![r] = [@ EXCEPT !.pc = "hung"]]
  /\ UNCHANGED << config, now, cred, exchanges, cb, login >>

\* The response has been sent and the connection ends: the slot is free again.
RequestClose(r) ==
  /\ req[r].pc = "done"
  /\ req' = [req EXCEPT ![r] = IdleReq]
  /\ UNCHANGED << config, now, cred, exchanges, cb, login >>

\* Date.now() advances.
Tick ==
  /\ \E d \in TickMs : /\ now + d <= MaxTicks * d
                        /\ now' = now + d
  /\ UNCHANGED << config, cred, exchanges, req, cb, login >>

\* ------------------------------------------------------------ /login, /callback

\* Characters of the `state` and `returnTo` query values the model enumerates.
StateChars == {"/", "%", "2", "F", "h", ":"}
StringsUpTo(n) == UNION { [1..k -> StateChars] : k \in 0..n }

\* /callback queries: `code` and `state` may each be missing.
CallbackQueries(states) ==
  { [code |-> "abc", state |-> st] : st \in states }
    \cup { [code |-> "abc"], [state |-> << "/", "h" >>], [code |-> "", state |-> << "/", "h" >>] }

SampleStates == { << "/", "h" >>, << "h", ":", "/", "/", "h" >>, << "%", "2", "F", "/", "h" >> }
SampleReturnTos == { [returnTo |-> << "/", "h" >>], [returnTo |-> << >>], Nothing }

\* Mutant of Login: copy 1 redirects without looking at the configuration.
Login_NoConfigCheck(query) ==
  LET returnTo == IF "returnTo" \in DOMAIN query /\ query.returnTo # << >>
                  THEN query.returnTo ELSE << "/" >>
  IN /\ login' = [status |-> 302, location |-> "createAuthorizeURL",
                  state |-> encodeURIComponent(returnTo)]
     /\ UNCHANGED << config, now, cred, exchanges, req, cb >>

\* src/server.js:43-71 (copy 1), 285-298 (copy 2)
Login(query) ==
  LET returnTo == IF "returnTo" \in DOMAIN query /\ query.returnTo # << >>
                  THEN query.returnTo ELSE << "/" >>
      state == encodeURIComponent(returnTo)
  IN /\ login' = IF variant = 1 /\ ~AuthPossible
                 THEN [status |-> 400, body |-> "Spotify OAuth is not configured"]
                 ELSE [status |-> 302, location |-> "createAuthorizeURL", state |-> state]
     /\ UNCHANGED << config, now, cred, exchanges, req, cb >>

\* src/server.js:74-77  /callback up to the code exchange
CallbackStart(query) ==
  /\ cb.pc = "idle"
  /\ cb' = IF "code" \in DOMAIN query /\ Truthy(query.code)
           THEN [IdleCb EXCEPT !.pc = "awaitGrant", !.query = query, !.grantCalls = 1]
           ELSE [IdleCb EXCEPT !.pc = "done", !.query = query, !.responses = 1,
                               !.status = 400, !.body = "Missing code"]
  /\ UNCHANGED << config, now, cred, exchanges, req, login >>

\* src/server.js:78-95  the code exchange resolves
CallbackGrantSucceeds(expiresIn) ==
  /\ cb.pc = "awaitGrant"
  /\ exchanges < MaxExchanges
  /\ exchanges' = exchanges + 1
  /\ apiAccessToken' = AccessTok(exchanges', 0)
  /\ apiRefreshToken' = RefreshTok(exchanges')
  /\ REFRESH_TOKEN' = RefreshTok(exchanges')
  /\ ACCESS_TOKEN_EXPIRES_AT' = now + expiresIn * 1000
  /\ cb' = [cb EXCEPT !.pc = "done", !.responses = @ + 1, !.status = 302,
                      !.location = RedirectTarget(cb.query)]
  /\ UNCHANGED << config, now, req, login >>

\* Mutant of CallbackGrantFails: the catch signs the server out.
CallbackGrantFails_SignsOut(err) ==
  /\ cb.pc = "awaitGrant"
  /\ apiAccessToken' = NoToken
  /\ apiRefreshToken' = NoToken
  /\ REFRESH_TOKEN' = NoToken
  /\ ACCESS_TOKEN_EXPIRES_AT' = 0
  /\ cb' = [cb EXCEPT !.pc = "done", !.responses = @ + 1, !.status = 500,
                      !.body = "Auth error",
                      !.logged = Append(@, << "Error exchanging code:", err.str >>)]
  /\ UNCHANGED << config, now, exchanges, req, login >>

\* Mutant of CallbackGrantFails: the response body is the provider's error.
CallbackGrantFails_LeaksDetail(err) ==
  /\ cb.pc = "awaitGrant"
  /\ cb' = [cb EXCEPT !.pc = "done", !.responses = @ + 1, !.status = 500,
                      !.body = err.str,
                      !.logged = Append(@, << "Error exchanging code:", err.str >>)]
  /\ UNCHANGED << config, now, cred, exchanges, req, login >>

\* src/server.js:96-99  the code exchange rejects
CallbackGrantFails(err) ==
  /\ cb.pc = "awaitGrant"
  /\ cb' = [cb EXCEPT !.pc = "done", !.responses = @ + 1, !.status = 500,
                      !.body = "Auth error",
                      !.logged = Append(@, << "Error exchanging code:", err.str >>)]
  /\ UNCHANGED << config, now, cred, exchanges, req, login >>

\* The /callback response has been sent and the connection ends.
CallbackClose ==
  /\ cb.pc = "done"
  /\ cb' = IdleCb
  /\ UNCHANGED << config, now, cred, exchanges, req, login >>

\* ---------------------------------------------------------- specifications

\* Every handler segment, for the request slots R and the inputs given.
Handlers(R, ops, payloads, fss, errs, queries) ==
  \/ \E r \in R, op \in ops : RequestStart(r, op)
  \/ \E r \in R, e \in ExpiresInChoices : RefreshSucceeds(r, e)
  \/ \E r \in R, err \in errs : RefreshFails(r, err)
  \/ \E r \in R, data \in payloads, fs \in fss : PlaybackSucceeds(r, data, fs)
  \/ \E r \in R, err \in errs : PlaybackFails(r, err)
  \/ \E r \in R : RequestClose(r)
  \/ \E q \in queries : CallbackStart(q)
  \/ \E e \in ExpiresInChoices : CallbackGrantSucceeds(e)
  \/ \E err \in errs : CallbackGrantFails(err)
  \/ CallbackClose
  \/ Tick

SamplePayloads ==
  { [status |-> 204, body |-> Nothing],
    [status |-> 200, body |-> [item |-> Track, progress_ms |-> 500, is_playing |-> TRUE]] }
SampleFileSystems ==
  { [mp4 |-> FALSE, webm |-> TRUE, mapFile |-> [kind |-> "missing"]] }
SampleQueries ==
  { [code |-> "abc", state |-> << "/", "h" >>], [state |-> << "/", "h" >>] }

\* The polling client: every operation and every provider error, with the
\* OAuth callback running beside it.
Next ==
  Handlers(Requests, Ops, SamplePayloads, SampleFileSystems, ProviderErrors, SampleQueries)

Spec == Init /\ [][Next]_vars

\* The OAuth handshake alone: /login, and /callback over every `state` value of
\* up to MaxStateLen characters.
NextAuth ==
  \/ \E q \in SampleReturnTos : Login(q)
  \/ \E q \in CallbackQueries(StringsUpTo(MaxStateLen)) : CallbackStart(q)
  \/ \E e \in ExpiresInChoices : CallbackGrantSucceeds(e)
  \/ \E err \in ProviderErrors : CallbackGrantFails(err)
  \/ CallbackClose

SpecAuth == Init /\ [][NextAuth]_vars

\* /now-playing alone, over every provider answer and every file system.
NextNowPlaying ==
  Handlers(Requests, {"now-playing"}, PlaybackPayloads, FileSystems,
           ProviderErrors, SampleQueries)

SpecNowPlaying == Init /\ [][NextNowPlaying]_vars

\* Overlapping requests: two request slots, so that a request can arrive while
\* another is suspended on its provider call.  Both copies of the server have
\* their credentials configured here, and one control stands for the five
\* operations, whose handlers differ only in the provider method called.
ConcRequests == {1, 2}
OneError == { [body |-> Null, message |-> "timeout-msg", str |-> "Error: timeout-msg"] }

InitConc ==
  /\ variant \in Variants
  /\ CLIENT_ID = "set"
  /\ CLIENT_SECRET = "set"
  /\ now = 0
  /\ apiAccessToken = NoToken
  /\ apiRefreshToken = NoToken
  /\ REFRESH_TOKEN = NoToken
  /\ ACCESS_TOKEN_EXPIRES_AT = 0
  /\ exchanges = 0
  /\ req = [r \in ConcRequests |-> IdleReq]
  /\ cb = IdleCb
  /\ login = NoLogin

NextConc ==
  Handlers(ConcRequests, {"pause"}, SamplePayloads, SampleFileSystems,
           OneError, SampleQueries)

SpecConc == InitConc /\ [][NextConc]_vars

\* Mutant of Returns: provider calls go through one queue, so that a call
\* returns only after the calls of the requests before it have returned.
Returns_Queued(r, payloads, fss, errs) ==
  /\ \A q \in DOMAIN req :
       q < r => req[q].pc \notin {"awaitRefresh", "awaitPlayback", "hung"}
  /\ \/ \E e \in ExpiresInChoices : RefreshSucceeds(r, e)
     \/ \E err \in errs : RefreshFails(r, err)
     \/ \E data \in payloads, fs \in fss : PlaybackSucceeds(r, data, fs)
     \/ \E err \in errs : PlaybackFails(r, err)

\* A provider call of request r returns and the handler's continuation runs.
Returns(r, payloads, fss, errs) ==
  \/ \E e \in ExpiresInChoices : RefreshSucceeds(r, e)
  \/ \E err \in errs : RefreshFails(r, err)
  \/ \E data \in payloads, fs \in fss : PlaybackSucceeds(r, data, fs)
  \/ \E err \in errs : PlaybackFails(r, err)

\* Overlapping requests some of whose provider calls never return, on a
\* server that has been signed in by one /callback.  A call that is not such
\* a call returns, and Node then runs the continuation of the handler
\* awaiting it.
InitHang ==
  /\ variant \in Variants
  /\ CLIENT_ID = "set"
  /\ CLIENT_SECRET = "set"
  /\ now = 0
  /\ apiAccessToken = AccessTok(1, 0)
  /\ apiRefreshToken = RefreshTok(1)
  /\ REFRESH_TOKEN = RefreshTok(1)
  /\ \E e \in ExpiresInChoices : ACCESS_TOKEN_EXPIRES_AT = now + e * 1000
  /\ exchanges = 1
  /\ req = [r \in ConcRequests |-> IdleReq]
  /\ cb = IdleCb
  /\ login = NoLogin

NextHang ==
  \/ \E r \in ConcRequests : RequestStart(r, "pause")
  \/ \E r \in ConcRequests : Returns(r, SamplePayloads, SampleFileSystems, OneError)
  \/ \E r \in ConcRequests : Hang(r)
  \/ \E r \in ConcRequests : RequestClose(r)
  \/ Tick

SpecHang ==
  /\ InitHang /\ [][NextHang]_vars
  /\ \A r \in ConcRequests :
       WF_vars(Returns(r, SamplePayloads, SampleFileSystems, OneError))

\* The polling client when every provider call returns.
SpecLive ==
  /\ Init /\ [][Next]_vars
  /\ \A r \in Requests :
       WF_vars(Returns(r, SamplePayloads, SampleFileSystems, ProviderErrors))

\* ------------------------------------------------------------------ claims

\* The step in which request r arrives and refreshAccessTokenIfNeeded decides.
Arrives(r) == req[r].pc = "idle" /\ req'[r].pc # "idle"

\* C1: refreshAccessTokenIfNeeded issues a provider refresh call exactly when
\* a refresh token is held and now >= expiresAt - 30 s: the arriving request
\* makes one refresh call in that case and none otherwise, and no later step
\* of the request makes another.
C1_RefreshExactlyWhenDue ==
  [][ \A r \in Requests :
        /\ Arrives(r) =>
             /\ req'[r].refreshCalls \in {0, 1}
             /\ (req'[r].refreshCalls = 1) <=>
                  (REFRESH_TOKEN # NoToken /\ now >= ACCESS_TOKEN_EXPIRES_AT - 30000)
             /\ (req'[r].pc = "awaitRefresh") <=> (req'[r].refreshCalls = 1)
        /\ (req[r].pc # "idle" /\ req'[r].pc # "idle") =>
             req'[r].refreshCalls = req[r].refreshCalls ]_vars

\* C1 witness: a refresh call is in flight that was issued exactly at
\* expiresAt - 30 s.
C1_Witness ==
  \E r \in Requests :
    /\ req[r].pc = "awaitRefresh"
    /\ ACCESS_TOKEN_EXPIRES_AT > 30000
    /\ now = ACCESS_TOKEN_EXPIRES_AT - 30000

\* C2: once a /callback code exchange has succeeded, an access token is
\* present in every later state.
C2_TokenStaysPresent == exchanges >= 1 => apiAccessToken # NoToken

\* C2 witness: after a successful exchange, a refresh has failed and a further
\* callback has been rejected, and the access token is still there.
C2_Witness ==
  /\ exchanges >= 1
  /\ cb.pc = "done" /\ cb.status = 500
  /\ \E r \in Requests : req[r].refresh = "failed" /\ req[r].pc = "done"
  /\ apiAccessToken # NoToken

\* C3 as claimed: a request whose refresh call failed is answered 401.
C3_Original ==
  \A r \in Requests :
    (req[r].pc = "done" /\ req[r].refresh = "failed") => req[r].status = 401

\* C3 as amended: a request whose refresh call failed logs the failure and
\* goes on with the access token still held: it calls the provider playback
\* operation and is answered 200 or 500, never 401.
C3_FailedRefreshGoesOn ==
  \A r \in Requests :
    req[r].refresh = "failed" =>
      /\ req[r].logged[1] = "Failed to refresh token:"
      /\ req[r].checked = "held"
      /\ req[r].playbackCalls = 1
      /\ req[r].called = ProviderMethod(req[r].op)
      /\ \/ req[r].pc = "awaitPlayback" /\ req[r].status = 0
         \/ req[r].pc = "done" /\ req[r].status \in {200, 500}

\* C3 witness: a request whose refresh failed has been answered 500.
C3_Witness ==
  \E r \in Requests :
    req[r].pc = "done" /\ req[r].refresh = "failed" /\ req[r].status = 500

\* C4: a failed refresh leaves the access token, the refresh token (the
\* server's and the client library's) and the expiry instant as they were,
\* in the step that issues the refresh call and in the step in which it fails.
C4_FailedRefreshKeepsCredential ==
  [][ \A r \in Requests :
        /\ (Arrives(r) /\ req'[r].refresh = "inflight") => UNCHANGED cred
        /\ (req[r].refresh = "inflight" /\ req'[r].refresh = "failed") => UNCHANGED cred
    ]_vars

\* C4 witness: a refresh has just failed and the request awaits the playback
\* call it made with the credential it had.
C4_Witness ==
  \E r \in Requests :
    /\ req[r].refresh = "failed" /\ req[r].pc = "awaitPlayback"
    /\ apiAccessToken # NoToken /\ apiRefreshToken = REFRESH_TOKEN

\* C5 as claimed: /now-playing with no access token held answers 401 with
\* auth_possible = false when the client id or secret is absent and true when
\* both are present.
C5_Original ==
  \A r \in Requests :
    (req[r].pc = "done" /\ req[r].op = "now-playing" /\ req[r].checked = "absent") =>
      /\ req[r].status = 401
      /\ "auth_possible" \in DOMAIN req[r].body
      /\ req[r].body.auth_possible = (CLIENT_ID # Null /\ CLIENT_SECRET # Null)

\* C6: the refresh step runs first, then the access-token check, and the
\* provider playback operation is called only in a step that finds an access
\* token held; a request that finds none is answered 401 without a call.
C6_CallOnlyWithToken ==
  [][ \A r \in Requests :
        /\ (req'[r].playbackCalls # req[r].playbackCalls /\ req'[r].pc # "idle") =>
             /\ apiAccessToken' # NoToken
             /\ req'[r].checked = "held"
             /\ req'[r].refresh \in {"skipped", "ok", "failed"}
             /\ req'[r].playbackCalls = 1
             /\ req'[r].called = ProviderMethod(req'[r].op)
        /\ (req'[r].checked # "none") => req'[r].refresh \in {"skipped", "ok", "failed"}
        /\ (req'[r].checked = "absent") =>
             /\ req'[r].playbackCalls = 0 /\ req'[r].called = "none"
             /\ req'[r].status = 401
    ]_vars

\* C6 witness: after a successful refresh the check found the token and the
\* playback call is in flight.
C6_Witness ==
  \E r \in Requests :
    req[r].pc = "awaitPlayback" /\ req[r].refresh = "ok" /\ req[r].checked = "held"

\* The `state` value of the /callback request, empty if there is none.
RawStateOf(query) == IF "state" \in DOMAIN query THEN query.state ELSE << >>

\* C7: after a successful code exchange /callback redirects to the decoded
\* state when it starts with '/', and to '/' in every other case (empty,
\* undecodable, or not starting with '/').
C7_RedirectsToDecodedPath ==
  (cb.pc = "done" /\ cb.status = 302) =>
    LET d == decodeURIComponent(RawStateOf(cb.query))
    IN /\ (d.ok /\ Len(d.str) > 0 /\ d.str[1] = "/") => cb.location = d.str
       /\ ~(d.ok /\ Len(d.str) > 0 /\ d.str[1] = "/") => cb.location = << "/" >>
       /\ RawStateOf(cb.query) = << "/", "h" >> => cb.location = << "/", "h" >>
       /\ RawStateOf(cb.query) = << "%", "2", "F" >> => cb.location = << "/" >>
       /\ RawStateOf(cb.query) = << "h", ":", "/" >> => cb.location = << "/" >>
       /\ RawStateOf(cb.query) = << "/", "%" >> => cb.location = << "/" >>

\* C7 witness: a state that decodes to a path has been redirected to the
\* decoded path.
C7_Witness ==
  /\ cb.pc = "done" /\ cb.status = 302
  /\ "state" \in DOMAIN cb.query
  /\ cb.query.state = << "/", "%", "2", "F" >> \/ cb.query.state = << "/", "h" >>
  /\ cb.location = << "/", "/" >> \/ cb.location = << "/", "h" >>

\* A redirect target that names another host: a network-path reference
\* (//host, or /\host as browsers read it) or a URL with a scheme.
OtherHost(t) ==
  \/ Len(t) >= 2 /\ t[1] = "/" /\ t[2] \in {"/", "BSOL"}
  \/ \E i \in 2..Len(t) : t[i] = ":" /\ \A j \in 1..(i - 1) : t[j] \notin {"/", "?", "#"}

\* C8 as claimed: the redirect target issued by /callback is never a location
\* on another host.
C8_Original ==
  (cb.pc = "done" /\ cb.status = 302) => ~OtherHost(cb.location)

\* C9: /login redirects to the authorize URL only when the client id and the
\* client secret are both present, and answers 400 with the diagnostic page
\* when either is missing.
C9_LoginNeedsConfig ==
  login.status # 0 =>
    /\ login.status = 302 <=> (CLIENT_ID # Null /\ CLIENT_SECRET # Null)
    /\ login.status = 400 <=> (CLIENT_ID = Null \/ CLIENT_SECRET = Null)
    /\ login.status = 400 => login.body = "Spotify OAuth is not configured"
    /\ login.status = 302 => login.location = "createAuthorizeURL"

\* C9 witness: /login has answered 400 because the client secret is missing.
C9_Witness ==
  login.status = 400 /\ CLIENT_ID # Null /\ CLIENT_SECRET = Null

\* The details a provider error carries.
ErrorDetails == UNION { {e.body, e.message, e.str} : e \in ProviderErrors } \ {Null, ""}

\* C10 as claimed: when the provider rejects the code exchange, the error
\* outcome of /callback carries the provider's error detail.
C10_Original ==
  (cb.pc = "done" /\ cb.status = 500) => cb.body \in ErrorDetails

\* C10 as amended: when the provider rejects the code exchange, /callback
\* answers 500 with the fixed body "Auth error"; the provider's error goes to
\* the console only.
C10_ExchangeFailureIsOpaque ==
  (cb.pc = "done" /\ cb.status = 500) =>
    /\ cb.body = "Auth error"
    /\ cb.body \notin ErrorDetails
    /\ cb.location = << >>
    /\ Len(cb.logged) = 1
    /\ cb.logged[1][1] = "Error exchanging code:"
    /\ cb.logged[1][2] \in { e.str : e \in ProviderErrors }

\* C10 witness: the exchange was rejected with an error that has a body, and
\* the callback has answered.
C10_Witness ==
  /\ cb.pc = "done" /\ cb.status = 500
  /\ cb.logged = << << "Error exchanging code:", "WebapiError: upstream-msg" >> >>

\* The handler's catch ran for request r: its console line is the last one.
CaughtPlaybackError(r) ==
  /\ req[r].logged # << >>
  /\ req[r].logged[Len(req[r].logged)] = ErrorLabel(req[r].op)

\* C11: when the provider playback call of any of the five operations fails,
\* the request is answered with status 500 and a body whose `details` field
\* is present, non-empty and taken from the upstream error; it is never
\* answered with a success response.
C11_FailedCallAnswers500 ==
  \A r \in Requests :
    CaughtPlaybackError(r) =>
      /\ req[r].pc = "done" /\ req[r].responses = 1
      /\ req[r].status = 500
      /\ "details" \in DOMAIN req[r].body
      /\ req[r].body.details # "" /\ req[r].body.details # Null
      /\ req[r].body.details \in ErrorDetails
      /\ "success" \notin DOMAIN req[r].body

\* A control whose provider call failed with an error that has no body and an
\* empty message: `details` falls back to String(err).
C11_Witness ==
  /\ req[1].op = "pause" /\ CaughtPlaybackError(1)
  /\ req[1].status = 500
  /\ req[1].body = [error |-> "pause failed", details |-> "Error"]

\* The provider reported no active playback session to request r.
NoSession(r) == req[r].data.body = Nothing \/ req[r].data.status = 204

\* C12: when the provider reports no active playback session (absent body or
\* status 204), /now-playing answers with the success response
\* {is_playing: false, item: null}.
C12_NoSessionAnswersIdle ==
  \A r \in Requests :
    (req[r].op = "now-playing" /\ req[r].pc = "done" /\ req[r].status # 401
       /\ ~CaughtPlaybackError(r) /\ NoSession(r)) =>
      /\ req[r].status = 200 /\ req[r].responses = 1
      /\ req[r].body = [is_playing |-> FALSE, item |-> Nothing]

\* Status 204 with a body that is present.
C12_Witness ==
  /\ req[1].op = "now-playing" /\ req[1].pc = "done" /\ req[1].status = 200
  /\ req[1].data = [status |-> 204, body |-> [item |-> Nothing]]
  /\ req[1].body = [is_playing |-> FALSE, item |-> Nothing]

\* Request r was answered with a snapshot whose item went through the canvas
\* lookup.
LookedForCanvas(r) ==
  /\ req[r].op = "now-playing" /\ req[r].pc = "done" /\ req[r].status = 200
  /\ LooksForCanvas(req[r].data)

\* canvas.json maps the track id to a url.
MappingHas(fs, id) ==
  /\ fs.mapFile.kind = "json"
  /\ id \in DOMAIN fs.mapFile.mapping

\* C13: the animated-background lookup prefers the local mp4 file, then the
\* local webm file, then the canvas.json mapping entry: a file-based URL wins
\* whenever a file exists, the mapping decides only when neither file exists,
\* and without any of the three the item has no canvas_url.
C13_CanvasPrecedence ==
  \A r \in Requests :
    LookedForCanvas(r) =>
      LET id == req[r].data.body.item.id
          fs == req[r].files
          item == req[r].body.item
      IN  /\ fs.mp4 => item.canvas_url = "/canvas/" \o id \o ".mp4"
          /\ (~fs.mp4 /\ fs.webm) => item.canvas_url = "/canvas/" \o id \o ".webm"
          /\ (~fs.mp4 /\ ~fs.webm /\ MappingHas(fs, id)) =>
                item.canvas_url = fs.mapFile.mapping[id]
          /\ (~fs.mp4 /\ ~fs.webm /\ ~MappingHas(fs, id)) =>
                "canvas_url" \notin DOMAIN item

\* Both files and a mapping entry exist: the mp4 URL is served.
C13_Witness ==
  /\ LookedForCanvas(1)
  /\ req[1].files.mp4 /\ req[1].files.webm /\ MappingHas(req[1].files, "t1")
  /\ req[1].body.item.canvas_url = "/canvas/t1.mp4"

\* The step in which the refresh call of request r resolves.
RefreshResolves(r) == req[r].refresh = "inflight" /\ req'[r].refresh = "ok"

\* C14: token refresh is not mutually exclusive.  Two overlapping requests
\* can each have a refresh call in flight at the same time; every refresh
\* call that resolves stores its own access token and expiry, whatever
\* another refresh stored meanwhile, and nothing else but a completed code
\* exchange changes them: the stored token and expiry are those of the
\* refresh that resolved last.
C14_LastRefreshWins ==
  [][ /\ \A r \in ConcRequests :
           RefreshResolves(r) =>
             /\ apiAccessToken' = AccessTok(req[r].usedRt.rt, r)
             /\ \E e \in ExpiresInChoices : ACCESS_TOKEN_EXPIRES_AT' = now + e * 1000
      /\ (apiAccessToken' # apiAccessToken
             \/ ACCESS_TOKEN_EXPIRES_AT' # ACCESS_TOKEN_EXPIRES_AT) =>
           \/ \E r \in ConcRequests : RefreshResolves(r)
           \/ exchanges' = exchanges + 1 ]_vars

\* Request 2's refresh call resolved while request 1's was in flight, and
\* request 1's resolved after it: the token held is the one request 1 stored.
C14_Witness ==
  /\ req[1].refresh = "ok" /\ req[1].during = {2}
  /\ req[2].refresh = "ok" /\ req[2].pc # "idle"
  /\ apiAccessToken = AccessTok(1, 1)

\* C15: credential replacement is atomic with respect to the other handlers.
\* Whenever the credential differs between two states a handler can see, all
\* the fields of one write have changed together: a resolved refresh has
\* stored its access token together with its expiry, or a completed code
\* exchange has stored its access token, its refresh token (in both places it
\* is kept) and its expiry.  No state shows only part of such a write.
C15_CredentialWrittenWhole ==
  [][ (cred' # cred) =>
        /\ apiRefreshToken' = REFRESH_TOKEN'
        /\ \E e \in ExpiresInChoices : ACCESS_TOKEN_EXPIRES_AT' = now + e * 1000
        /\ \/ /\ \E r \in ConcRequests :
                    RefreshResolves(r) /\ apiAccessToken' = AccessTok(req[r].usedRt.rt, r)
              /\ UNCHANGED << apiRefreshToken, REFRESH_TOKEN >>
           \/ /\ exchanges' = exchanges + 1
              /\ apiAccessToken' = AccessTok(exchanges', 0)
              /\ REFRESH_TOKEN' = RefreshTok(exchanges') ]_vars

\* Handlers interleave around a write: request 2 has stored its refresh and
\* waits for the provider while request 1's refresh call and a code exchange
\* are still in flight; the token and the expiry held are both request 2's.
C15_Witness ==
  /\ cb.pc = "awaitGrant"
  /\ req[1].pc = "awaitRefresh"
  /\ req[2].pc = "awaitPlayback" /\ req[2].refresh = "ok"
  /\ apiAccessToken = AccessTok(1, 2)
  /\ ACCESS_TOKEN_EXPIRES_AT = now + 45000

\* C16: nothing is retried within a request.  A request makes at most one
\* refresh call and at most one provider playback call; after a failed
\* refresh it has made exactly one refresh call, and when it is answered 500
\* it has made exactly one playback call.
C16_NoRetry ==
  \A r \in Requests :
    /\ req[r].refreshCalls <= 1 /\ req[r].playbackCalls <= 1
    /\ req[r].refresh = "failed" => req[r].refreshCalls = 1
    /\ CaughtPlaybackError(r) => req[r].pc = "done" /\ req[r].playbackCalls = 1
    /\ req[r].pc = "awaitRefresh" => req[r].playbackCalls = 0

\* Both calls of one request failed, each made once.
C16_Witness ==
  /\ req[1].pc = "done" /\ req[1].refresh = "failed" /\ CaughtPlaybackError(1)
  /\ req[1].refreshCalls = 1 /\ req[1].playbackCalls = 1

\* C18 as claimed: in every reachable state the access token held was issued
\* for the refresh token held, also when /callback completes while a refresh
\* started under the previous credential is still in flight.
C18_Original ==
  apiAccessToken # NoToken =>
    /\ REFRESH_TOKEN # NoToken
    /\ apiAccessToken.rt = REFRESH_TOKEN.rt

\* The step in which /callback is answered with something else than the
\* redirect.
CallbackRefuses == cb.pc # "done" /\ cb'.pc = "done" /\ cb'.status # 302

\* C19: a /callback that does not succeed leaves the access token, the
\* refresh token and the expiry as they were.  It is answered 400 straight
\* from arrival, without a code-exchange call, when the code is missing, and
\* 500 after the one exchange call was rejected.
C19_FailedCallbackKeepsCredential ==
  [][ CallbackRefuses =>
        /\ cred' = cred
        /\ cb'.responses = 1
        /\ \/ /\ cb'.status = 400 /\ cb.pc = "idle" /\ cb'.grantCalls = 0
              /\ ~("code" \in DOMAIN cb'.query /\ Truthy(cb'.query.code))
           \/ /\ cb'.status = 500 /\ cb.pc = "awaitGrant" /\ cb'.grantCalls = 1 ]_vars

\* A /callback without a code was refused while a credential is held.
C19_Witness ==
  /\ cb.pc = "done" /\ cb.status = 400 /\ cb.grantCalls = 0
  /\ REFRESH_TOKEN = RefreshTok(1) /\ apiAccessToken = AccessTok(1, 0)
  /\ ACCESS_TOKEN_EXPIRES_AT = 45000

\* Request r is suspended on a provider call that will return.
Suspended(r) == req[r].pc \in {"awaitRefresh", "awaitPlayback"}

\* C17: a provider call that never returns stalls only the request awaiting
\* it.  While some request is suspended on such a call, every other request
\* that is waiting for a provider call of its own is answered once that call
\* returns (unless its own call is one that never returns either).
C17_HungCallStallsOnlyItsRequest ==
  \A r \in ConcRequests :
    [](( /\ Suspended(r)
         /\ \E q \in ConcRequests \ {r} : req[q].pc = "hung" )
        => <>(req[r].pc \in {"done", "hung"}))

\* Request 1 is suspended for good on its refresh call; request 2's refresh
\* call resolved meanwhile and request 2 has been answered.
C17_Witness ==
  /\ req[1].pc = "hung" /\ req[1].refresh = "inflight" /\ req[1].during = {2}
  /\ req[2].pc = "done" /\ req[2].responses = 1 /\ req[2].status = 200

\* C20: every request to one of the five playback operations whose provider
\* calls return is eventually answered, with exactly one response, which is
\* the success response, the 401 or the 500: no request is answered twice,
\* and none stays unanswered.
C20_AnsweredExactlyOnce ==
  /\ [](\A r \in Requests :
          /\ req[r].responses = (IF req[r].pc = "done" THEN 1 ELSE 0)
          /\ req[r].pc = "done" => req[r].status \in {200, 401, 500})
  /\ \A r \in Requests : Suspended(r) ~> (req[r].pc = "done")

\* A request answered once after both its refresh call and its playback call
\* returned.
C20_Witness ==
  /\ req[1].pc = "done" /\ req[1].responses = 1 /\ req[1].status = 200
  /\ req[1].op = "next" /\ req[1].refresh = "ok"
  /\ req[1].refreshCalls = 1 /\ req[1].playbackCalls = 1

====
